---- MODULE Spec2Model ----
(***************************************************************************)
(* Model of backend/tempCodeRunnerFile.py: the /signup and /login handlers *)
(* over the users table, and the /predict pipeline (claim extraction,      *)
(* evidence fetchers, evidence aggregation, inference call, label check).  *)
(*                                                                         *)
(* A Python str is a sequence of one-character strings.  A Python value    *)
(* that need not be a str is a record [t, s]: t is its type, s its text.   *)
(* All three handlers are "async def" bodies without an await, so the      *)
(* event loop runs each of them to completion before it starts another.    *)
(***************************************************************************)
EXTENDS Integers, Sequences, FiniteSets, TLC

VARIABLES
    users,                \* rows of table users: [id, name, email, password_hash]
    inflight,             \* /signup and /login requests accepted, handler not yet run
    log,                  \* handled auth requests, in handling order, with responses
    pc,                   \* position of the /predict handler
    message,              \* request.message
    claim,                \* local claim
    wiki_summary,         \* local wiki_summary
    newsapi_snippets,     \* local newsapi_snippets
    gnews_snippets,       \* local gnews_snippets
    factchecker_snippets, \* local factchecker_snippets
    all_evidence,         \* local all_evidence
    messages,             \* local messages (system prompt and user message)
    result,               \* what client.chat.completions.create handed back
    exc,                  \* the exception caught by "except Exception as e"
    response,             \* the HTTP response of /predict
    outbound,             \* outbound HTTP GETs of this request: <<source, query>>
    answered,             \* what the evidence source asked last answered
    failed,               \* history: the evidence sources that failed in this request
    llm_calls             \* calls of the inference endpoint in this request

authVars == <<users, inflight, log>>

predictVars ==
    <<pc, message, claim, wiki_summary, newsapi_snippets, gnews_snippets,
      factchecker_snippets, all_evidence, messages, result, exc, response,
      outbound, answered, failed, llm_calls>>

vars == <<authVars, predictVars>>

----------------------------------------------------------------------------
(* Bounds of the model *)

\* most words of a generated message (the extractor keeps ClaimWords of them)
MaxWords == 9

\* most tokens a model reply is built from
MaxReplyTokens == 2

\* most auth requests (in flight or handled) in one behaviour
MaxRequests == 3

----------------------------------------------------------------------------
(* Python str operations *)

\* the whitespace str.split() and str.strip() without arguments act on
Whitespace == {" ", "\t", "\n"}

Min(a, b) == IF a < b THEN a ELSE b

RECURSIVE SplitAcc(_, _, _, _)
SplitAcc(t, i, cur, acc) ==
    IF i > Len(t)
    THEN IF cur = <<>> THEN acc ELSE Append(acc, cur)
    ELSE IF t[i] \in Whitespace
         THEN SplitAcc(t, i + 1, <<>>, IF cur = <<>> THEN acc ELSE Append(acc, cur))
         ELSE SplitAcc(t, i + 1, Append(cur, t[i]), acc)

\* text.split(): the maximal runs of non-whitespace, in order
split(t) == SplitAcc(t, 1, <<>>, <<>>)

RECURSIVE join(_, _)
\* sep.join(parts)
join(sep, parts) ==
    IF parts = <<>> THEN <<>>
    ELSE IF Len(parts) = 1 THEN parts[1]
    ELSE parts[1] \o sep \o join(sep, Tail(parts))

\* s.strip(chars): leading and trailing characters of the set removed
strip_chars(s, chars) ==
    LET keep == {i \in 1..Len(s) : s[i] \notin chars}
    IN  IF keep = {} THEN <<>>
        ELSE LET lo == CHOOSE i \in keep : \A j \in keep : i <= j
                 hi == CHOOSE i \in keep : \A j \in keep : j <= i
             IN  SubSeq(s, lo, hi)

\* s.strip()
strip(s) == strip_chars(s, Whitespace)

\* sub in s
contains(sub, s) ==
    \E i \in 1..(Len(s) - Len(sub) + 1) : SubSeq(s, i, i + Len(sub) - 1) = sub

RECURSIVE replace(_, _, _)
\* s.replace(old, new) for one-character old and new
replace(s, old, new) ==
    IF s = <<>> THEN <<>>
    ELSE <<IF s[1] = old THEN new ELSE s[1]>> \o replace(Tail(s), old, new)

----------------------------------------------------------------------------
(* Python values *)

Str(s) == [t |-> "str", s |-> s]
None == [t |-> "None", s |-> <<>>]
\* a local that has not been assigned yet
Unset == [t |-> "unset", s |-> <<>>]
\* a key the JSON object does not have
Missing == [t |-> "missing", s |-> <<>>]

\* bool(v)
truthy(v) ==
    CASE v.t = "str" -> v.s # <<>>
      [] v.t = "None" -> FALSE
      [] v.t = "int" -> v.s # <<"0">>
      [] v.t = "list" -> v.s # <<>>
      [] OTHER -> FALSE

\* how an f-string renders v
format(v) ==
    CASE v.t = "str" -> v.s
      [] v.t = "None" -> <<"N", "o", "n", "e">>
      [] v.t = "list" -> <<"[">> \o v.s \o <<"]">>
      [] OTHER -> v.s

----------------------------------------------------------------------------
(* extract_main_claim *)

\* a message of fewer words than this is kept whole
MinWords == 3

\* the words kept of a longer message
ClaimWords == 8

\* the characters extract_main_claim strips
ClaimStrip == {" ", ".", ","}

extract_main_claim_9words(text) ==
    LET words == split(text)
        c == IF Len(words) >= MinWords
             THEN join(<<" ">>, SubSeq(words, 1, Min(ClaimWords + 1, Len(words))))
             ELSE text
    IN  strip_chars(c, ClaimStrip)

extract_main_claim_split_always(text) ==
    LET words == split(text)
    IN  strip_chars(join(<<" ">>, SubSeq(words, 1, Min(ClaimWords, Len(words)))),
                    ClaimStrip)

extract_main_claim(text) ==
    LET words == split(text)
        c == IF Len(words) >= MinWords
             THEN join(<<" ">>, SubSeq(words, 1, Min(ClaimWords, Len(words))))
             ELSE text
    IN  strip_chars(c, ClaimStrip)

----------------------------------------------------------------------------
(* Messages the extractor is run on: lead, n words, trail.  The first and  *)
(* the last word and the separator vary; the words between are "a".        *)

Pads == {<<>>, <<" ">>, <<"\n">>, <<".">>, <<",", " ">>}

Words == {<<"a">>, <<".", "b">>, <<"b", ",">>, <<".">>}

Seps == {<<" ">>, <<" ", " ">>, <<"\t">>}

RECURSIVE Body(_, _, _, _)
Body(n, first, last, sep) ==
    IF n = 0 THEN <<>>
    ELSE IF n = 1 THEN first
    ELSE IF n = 2 THEN first \o sep \o last
    ELSE first \o sep \o Body(n - 1, <<"a">>, last, sep)

Messages ==
    {lead \o Body(n, first, last, sep) \o trail :
        lead \in Pads, trail \in Pads, n \in 0..MaxWords,
        first \in Words, last \in Words, sep \in Seps}

----------------------------------------------------------------------------
(* Evidence sources.  What a source answers is an input of the model:      *)
(* [kind, status_code, data].  kind "exception" is requests.get raising    *)
(* (timeout, network error); data.t = "invalid" is a body resp.json()      *)
(* raises on; any other data is the parsed JSON document.                  *)

NoData == [t |-> "invalid", extract |-> Missing, articles |-> Missing]

Failed == [kind |-> "exception", status_code |-> 0, data |-> NoData]

Answer(code, data) == [kind |-> "response", status_code |-> code, data |-> data]

\* no evidence source has answered yet
NoOutcome == [kind |-> "none", status_code |-> 0, data |-> NoData]

WikiDoc(extract) == [t |-> "dict", extract |-> extract, articles |-> Missing]

NewsDoc(articles) == [t |-> "dict", extract |-> Missing, articles |-> articles]

\* a JSON document that is an array, not an object
ArrayDoc == [t |-> "list", extract |-> Missing, articles |-> Missing]

Article(title, description) ==
    [t |-> "dict", title |-> title, description |-> description]

\* an element of "articles" that is not an object
NotAnArticle == [t |-> "str", title |-> Missing, description |-> Missing]

List(items) == [t |-> "list", s |-> items]

WikiOutcomes ==
    {Failed, Answer(404, NoData), Answer(200, NoData), Answer(200, ArrayDoc),
     Answer(200, WikiDoc(Missing)),
     Answer(200, WikiDoc(Str(<<>>))),
     Answer(200, WikiDoc(Str(<<"w">>))),
     Answer(200, WikiDoc(Str(<<" ">>))),
     Answer(200, WikiDoc(None)),
     Answer(200, WikiDoc([t |-> "int", s |-> <<"7">>]))}

NewsOutcomes ==
    {Failed, Answer(500, NoData), Answer(200, NoData), Answer(200, ArrayDoc),
     Answer(200, NewsDoc(Missing)),
     Answer(200, NewsDoc(None)),
     Answer(200, NewsDoc(List(<<>>))),
     Answer(200, NewsDoc(List(<<NotAnArticle>>))),
     Answer(200, NewsDoc(List(<<Article(Str(<<"T">>), Str(<<"d">>))>>))),
     Answer(200, NewsDoc(List(<<Article(Str(<<"T">>), None)>>))),
     Answer(200, NewsDoc(List(<<Article(Str(<<>>), Missing)>>))),
     Answer(200, NewsDoc(List(<<Article(Str(<<"T">>), Str(<<"d">>)),
                                Article(Str(<<"U">>), Str(<<"e", "\n">>))>>)))}

\* the outcomes the claims call a failure of the source: no answer, a
\* non-200 status, a body that is no JSON, or JSON of the wrong shape
WikiFailure(o) ==
    \/ o.kind = "exception"
    \/ o.kind = "response" /\ o.status_code # 200
    \/ o.kind = "response" /\ o.status_code = 200
       /\ (o.data.t # "dict" \/ o.data.extract.t \notin {"str", "missing"})

NewsFailure(o) ==
    \/ o.kind = "exception"
    \/ o.kind = "response" /\ o.status_code # 200
    \/ o.kind = "response" /\ o.status_code = 200
       /\ (\/ o.data.t # "dict"
           \/ o.data.articles.t \notin {"list", "missing"}
           \/ o.data.articles.t = "list"
              /\ \E i \in 1..Len(o.data.articles.s) : o.data.articles.s[i].t # "dict")

RECURSIVE snippets_of(_)
\* the loop of fetch_newsapi_headlines and fetch_gnews_headlines over a
\* list of article objects: f"{title}: {desc}" for each
snippets_of(items) ==
    IF items = <<>> THEN <<>>
    ELSE LET a == items[1]
             title == IF a.title = Missing THEN Str(<<>>) ELSE a.title
             desc == IF a.description = Missing THEN Str(<<>>) ELSE a.description
         IN  <<format(title) \o <<":", " ">> \o format(desc)>> \o snippets_of(Tail(items))

\* article.get raises AttributeError on an element that is no object
all_dicts(items) == \A i \in 1..Len(items) : items[i].t = "dict"

fetch_wikipedia_summary(o) ==
    IF o.kind = "exception" THEN Str(<<>>)          \* except Exception: pass
    ELSE IF o.status_code # 200 THEN Str(<<>>)
    ELSE IF o.data.t # "dict" THEN Str(<<>>)        \* resp.json() or data.get raises
    ELSE IF o.data.extract = Missing THEN Str(<<>>) \* data.get("extract", "")
    ELSE o.data.extract

fetch_newsapi_headlines(o) ==
    IF o.kind = "exception" THEN Str(<<>>)
    ELSE IF o.status_code # 200 THEN Str(<<>>)
    ELSE IF o.data.t # "dict" THEN Str(<<>>)
    ELSE IF o.data.articles = Missing THEN Str(<<>>)     \* "articles" in data
    ELSE IF ~truthy(o.data.articles) THEN Str(<<>>)      \* and data["articles"]
    ELSE IF ~all_dicts(o.data.articles.s) THEN Str(<<>>) \* article.get raises
    ELSE Str(join(<<"\n">>, snippets_of(o.data.articles.s)))

fetch_gnews_headlines(o) ==
    IF o.kind = "exception" THEN Str(<<>>)
    ELSE IF o.status_code # 200 THEN Str(<<>>)
    ELSE IF o.data.t # "dict" THEN Str(<<>>)
    ELSE IF o.data.articles = Missing THEN Str(<<>>)     \* data.get("articles", [])
    ELSE IF o.data.articles.t # "list" THEN Str(<<>>)    \* iterating None raises
    ELSE IF ~all_dicts(o.data.articles.s) THEN Str(<<>>) \* art.get raises
    ELSE Str(join(<<"\n">>, snippets_of(o.data.articles.s)))

fetch_factchecker_rss(query) == Str(<<>>)

----------------------------------------------------------------------------
(* Evidence aggregation *)

NO_EVIDENCE == <<
    "N","o"," ","r","e","l","e","v","a","n","t"," ","e","v","i","d","e","n","c","e"," ",
    "f","o","u","n","d"," ","i","n"," ","W","i","k","i","p","e","d","i","a",","," ","n",
    "e","w","s",","," ","o","r"," ","f","a","c","t","-","c","h","e","c","k","i","n","g",
    " ","s","o","u","r","c","e","s","." >>

RECURSIVE texts(_)
texts(parts) == IF parts = <<>> THEN <<>> ELSE <<parts[1].s>> \o texts(Tail(parts))

\* a result of a step that may raise: its value, or the exception's message
Value(v) == [raised |-> FALSE, value |-> v, error |-> ""]

Raise(e) == [raised |-> TRUE, value |-> <<>>, error |-> e]

\* the TypeError of str.join on its first item that is not a str
join_type_error(items) ==
    LET i == CHOOSE k \in 1..Len(items) :
                 items[k].t # "str" /\ \A j \in 1..(k - 1) : items[j].t = "str"
    IN  "sequence item " \o <<"0", "1", "2", "3">>[i]
        \o ": expected str instance, " \o items[i].t \o " found"

aggregate_evidence_no_strip(parts) ==
    LET kept == SelectSeq(parts, truthy)
    IN  IF \E i \in 1..Len(kept) : kept[i].t # "str"
        THEN Raise(join_type_error(kept))
        ELSE LET joined == join(<<"\n">>, texts(kept))
             IN  Value(IF joined = <<>> THEN NO_EVIDENCE ELSE joined)

\* "\n".join(part for part in all_evidence_parts if part).strip(), then the
\* fallback; join raises TypeError on a part that is not a str
aggregate_evidence(parts) ==
    LET kept == SelectSeq(parts, truthy)
    IN  IF \E i \in 1..Len(kept) : kept[i].t # "str"
        THEN Raise(join_type_error(kept))
        ELSE LET joined == strip(join(<<"\n">>, texts(kept)))
             IN  Value(IF joined = <<>> THEN NO_EVIDENCE ELSE joined)

----------------------------------------------------------------------------
(* Inference call and label check *)

FAKE == <<"F", "A", "K", "E">>

REAL == <<"R", "E", "A", "L">>

UNCERTAIN == <<"U", "N", "C", "E", "R", "T", "A", "I", "N">>

Labels == {FAKE, REAL, UNCERTAIN}

FALLBACK == <<
    "U","N","C","E","R","T","A","I","N",":"," ","M","o","d","e","l"," ","c","o","u","l",
    "d"," ","n","o","t"," ","c","o","n","f","i","d","e","n","t","l","y"," ","c","l","a",
    "s","s","i","f","y"," ","b","a","s","e","d"," ","o","n"," ","c","u","r","r","e","n",
    "t"," ","e","v","i","d","e","n","c","e","."," ","P","l","e","a","s","e"," ","t","r",
    "y"," ","a"," ","d","i","f","f","e","r","e","n","t"," ","c","l","a","i","m","." >>

\* any(label in response for label in ["FAKE", "REAL", "UNCERTAIN"])
has_label(text) == \E label \in Labels : contains(label, text)

\* the pieces a model reply is put together from
ReplyTokens ==
    {FAKE, REAL, UNCERTAIN, <<"f", "a", "k", "e">>, <<"F", "A">>, <<"K", "E">>, <<" ">>}

RECURSIVE RepliesOf(_)
RepliesOf(n) ==
    IF n = 0 THEN {<<>>}
    ELSE LET shorter == RepliesOf(n - 1)
         IN  shorter \cup {r \o tok : r \in shorter, tok \in ReplyTokens}

Replies == RepliesOf(MaxReplyTokens)

\* what client.chat.completions.create does: raises, or hands back a result
\* with `choices` choices whose first has message.content `content`
Raised(e) == [kind |-> "raise", error |-> e, choices |-> 0, content |-> Unset]

Returned(n, content) == [kind |-> "return", error |-> "", choices |-> n, content |-> content]

NoResult == [kind |-> "none", error |-> "", choices |-> 0, content |-> Unset]

LlmOutcomes ==
    {Raised("provider error"), Raised(""), Returned(0, Unset), Returned(1, None)}
    \cup {Returned(1, Str(r)) : r \in Replies}

SystemTemplate == "You are a professional fake news detection assistant. ..."

compose(msg, evidence) ==
    [system |-> <<SystemTemplate, "User's message: ">> \o msg
                \o <<"\nMulti-source evidence: ">> \o evidence,
     user |-> msg]

validate_no_fallback(res) ==
    IF res.choices = 0 THEN Raise("list index out of range")
    ELSE IF res.content.t # "str"
    THEN Raise("'NoneType' object has no attribute 'strip'")
    ELSE Value(strip(res.content.s))

validate_none_as_fallback(res) ==
    IF res.choices = 0 \/ res.content.t # "str" THEN Value(FALLBACK)
    ELSE LET text == strip(res.content.s)
         IN  Value(IF ~has_label(text) THEN FALLBACK ELSE text)

\* result.choices[0].message.content.strip() and the label check
validate(res) ==
    IF res.choices = 0 THEN Raise("list index out of range")
    ELSE IF res.content.t # "str"
    THEN Raise("'NoneType' object has no attribute 'strip'")
    ELSE LET text == strip(res.content.s)
         IN  Value(IF ~has_label(text) THEN FALLBACK ELSE text)

Ok(body) == [status |-> 200, body |-> body]

ServerError_without_message(e) ==
    [status |-> 500, body |-> <<"Error generating response: ", "">>]

\* HTTPException(status_code=500, detail=f"Error generating response: {str(e)}")
ServerError(e) == [status |-> 500, body |-> <<"Error generating response: ", e>>]

NoResponse == [status |-> 0, body |-> <<>>]

\* "no exception is pending"
NoExc == "<none>"

----------------------------------------------------------------------------
(* The /predict handler, one action per call it makes *)

PredictMessages ==
    {<<>>, <<"T", "h", "e", " ", "m", "o", "o", "n", " ", "w", "a", "s", ".">>}

PredictIdle ==
    /\ pc = "idle"
    /\ message = <<>>
    /\ claim = Unset
    /\ wiki_summary = Unset
    /\ newsapi_snippets = Unset
    /\ gnews_snippets = Unset
    /\ factchecker_snippets = Unset
    /\ all_evidence = <<>>
    /\ messages = compose(<<>>, <<>>)
    /\ result = NoResult
    /\ exc = NoExc
    /\ response = NoResponse
    /\ outbound = <<>>
    /\ answered = NoOutcome
    /\ failed = {}
    /\ llm_calls = 0

AuthIdle ==
    /\ users = {}
    /\ inflight = {}
    /\ log = <<>>

\* POST /predict arrives with body {message: m}
Predict ==
    /\ pc = "idle"
    /\ \E m \in PredictMessages : message' = m
    /\ pc' = "extract"
    /\ UNCHANGED <<claim, wiki_summary, newsapi_snippets, gnews_snippets,
                   factchecker_snippets, all_evidence, messages, result, exc,
                   response, outbound, answered, failed, llm_calls>>
    /\ UNCHANGED authVars

ExtractMainClaim ==
    /\ pc = "extract"
    /\ claim' = Str(extract_main_claim(message))
    /\ pc' = "wikipedia"
    /\ UNCHANGED <<message, wiki_summary, newsapi_snippets, gnews_snippets,
                   factchecker_snippets, all_evidence, messages, result, exc,
                   response, outbound, answered, failed, llm_calls>>
    /\ UNCHANGED authVars

FetchWikipedia ==
    /\ pc = "wikipedia"
    /\ \E o \in WikiOutcomes :
          /\ answered' = o
          /\ failed' = IF WikiFailure(o) THEN failed \cup {"wikipedia"} ELSE failed
          /\ wiki_summary' = fetch_wikipedia_summary(o)
    /\ outbound' = Append(outbound, <<"wikipedia", replace(claim.s, " ", "_")>>)
    /\ pc' = "newsapi"
    /\ UNCHANGED <<message, claim, newsapi_snippets, gnews_snippets,
                   factchecker_snippets, all_evidence, messages, result, exc,
                   response, llm_calls>>
    /\ UNCHANGED authVars

FetchNewsapi ==
    /\ pc = "newsapi"
    /\ \E o \in NewsOutcomes :
          /\ answered' = o
          /\ failed' = IF NewsFailure(o) THEN failed \cup {"newsapi"} ELSE failed
          /\ newsapi_snippets' = fetch_newsapi_headlines(o)
    /\ outbound' = Append(outbound, <<"newsapi", claim.s>>)
    /\ pc' = "gnews"
    /\ UNCHANGED <<message, claim, wiki_summary, gnews_snippets,
                   factchecker_snippets, all_evidence, messages, result, exc,
                   response, llm_calls>>
    /\ UNCHANGED authVars

FetchGnews ==
    /\ pc = "gnews"
    /\ \E o \in NewsOutcomes :
          /\ answered' = o
          /\ failed' = IF NewsFailure(o) THEN failed \cup {"gnews"} ELSE failed
          /\ gnews_snippets' = fetch_gnews_headlines(o)
    /\ outbound' = Append(outbound, <<"gnews", claim.s>>)
    /\ pc' = "factchecker"
    /\ UNCHANGED <<message, claim, wiki_summary, newsapi_snippets,
                   factchecker_snippets, all_evidence, messages, result, exc,
                   response, llm_calls>>
    /\ UNCHANGED authVars

FetchFactchecker ==
    /\ pc = "factchecker"
    /\ factchecker_snippets' = fetch_factchecker_rss(claim.s)
    /\ answered' = NoOutcome
    /\ pc' = "aggregate"
    /\ UNCHANGED <<message, claim, wiki_summary, newsapi_snippets, gnews_snippets,
                   all_evidence, messages, result, exc, response, outbound,
                   failed, llm_calls>>
    /\ UNCHANGED authVars

AggregateEvidence ==
    /\ pc = "aggregate"
    /\ LET r == aggregate_evidence(<<wiki_summary, newsapi_snippets,
                                     gnews_snippets, factchecker_snippets>>)
       IN  IF r.raised
           THEN /\ exc' = r.error
                /\ pc' = "except"
                /\ UNCHANGED <<all_evidence, messages>>
           ELSE /\ all_evidence' = r.value
                /\ messages' = compose(message, r.value)
                /\ pc' = "inference"
                /\ UNCHANGED exc
    /\ UNCHANGED <<message, claim, wiki_summary, newsapi_snippets, gnews_snippets,
                   factchecker_snippets, result, response, outbound, answered,
                   failed, llm_calls>>
    /\ UNCHANGED authVars

CallInference ==
    /\ pc = "inference"
    /\ llm_calls' = llm_calls + 1
    /\ \E o \in LlmOutcomes :
          /\ result' = o
          /\ IF o.kind = "raise"
             THEN exc' = o.error /\ pc' = "except"
             ELSE UNCHANGED exc /\ pc' = "validate"
    /\ UNCHANGED <<message, claim, wiki_summary, newsapi_snippets, gnews_snippets,
                   factchecker_snippets, all_evidence, messages, response,
                   outbound, answered, failed>>
    /\ UNCHANGED authVars

ValidateResponse ==
    /\ pc = "validate"
    /\ LET r == validate(result)
       IN  IF r.raised
           THEN exc' = r.error /\ pc' = "except" /\ UNCHANGED response
           ELSE response' = Ok(r.value) /\ pc' = "done" /\ UNCHANGED exc
    /\ UNCHANGED <<message, claim, wiki_summary, newsapi_snippets, gnews_snippets,
                   factchecker_snippets, all_evidence, messages, result,
                   outbound, answered, failed, llm_calls>>
    /\ UNCHANGED authVars

\* except Exception as e: raise HTTPException(500, ...)
HandleException ==
    /\ pc = "except"
    /\ response' = ServerError(exc)
    /\ pc' = "done"
    /\ UNCHANGED <<message, claim, wiki_summary, newsapi_snippets, gnews_snippets,
                   factchecker_snippets, all_evidence, messages, result, exc,
                   outbound, answered, failed, llm_calls>>
    /\ UNCHANGED authVars

Init == AuthIdle /\ PredictIdle

Next ==
    \/ Predict
    \/ ExtractMainClaim
    \/ FetchWikipedia
    \/ FetchNewsapi
    \/ FetchGnews
    \/ FetchFactchecker
    \/ AggregateEvidence
    \/ CallInference
    \/ ValidateResponse
    \/ HandleException

\* the /predict pipeline
Spec == Init /\ [][Next]_vars

----------------------------------------------------------------------------
(* extract_main_claim alone, on the messages of Messages *)

InitClaim ==
    /\ AuthIdle
    /\ pc = "extract"
    /\ message \in Messages
    /\ claim = Unset
    /\ wiki_summary = Unset
    /\ newsapi_snippets = Unset
    /\ gnews_snippets = Unset
    /\ factchecker_snippets = Unset
    /\ all_evidence = <<>>
    /\ messages = compose(<<>>, <<>>)
    /\ result = NoResult
    /\ exc = NoExc
    /\ response = NoResponse
    /\ outbound = <<>>
    /\ answered = NoOutcome
    /\ failed = {}
    /\ llm_calls = 0

NextClaim == ExtractMainClaim

SpecClaim == InitClaim /\ [][NextClaim]_vars

----------------------------------------------------------------------------
(* The users table, /signup and /login *)

\* ord(c) of the characters passwords are made of; each is one UTF-8 byte
Ord(c) ==
    CASE c = "p" -> 112
      [] c = "w" -> 119
      [] c = "1" -> 49
      [] OTHER -> 63

RECURSIVE encode(_)
\* password.encode(): the UTF-8 bytes
encode(password) ==
    IF password = <<>> THEN <<>> ELSE <<Ord(password[1])>> \o encode(Tail(password))

RECURSIVE Absorb(_, _)
\* The digest.  SHA-256 is the library's; here it is a 16-bit digest that
\* keeps what the handlers rely on: it is a function of the bytes alone, it
\* depends on their order, and its output has a fixed length.
Absorb(h, bytes) ==
    IF bytes = <<>> THEN h
    ELSE Absorb((h * 31 + bytes[1]) % 65536, Tail(bytes))

HexDigit(n) ==
    <<"0", "1", "2", "3", "4", "5", "6", "7", "8", "9",
      "a", "b", "c", "d", "e", "f">>[n + 1]

\* hexdigest(): fixed-length lower-case hex
hexdigest(h) ==
    <<HexDigit(h \div 4096), HexDigit((h \div 256) % 16),
      HexDigit((h \div 16) % 16), HexDigit(h % 16)>>

hash_password(password) == hexdigest(Absorb(7, encode(password)))

Emails == {"ann@x.io", "bob@x.io"}

Names == {"Ann", "Bob"}

Passwords == {<<"p", "w">>, <<"w", "p", "1">>}

SignupRequest(name, email, password) ==
    [op |-> "signup", name |-> name, email |-> email, password |-> password]

LoginRequest(email, password) ==
    [op |-> "login", name |-> "", email |-> email, password |-> password]

AuthRequests ==
    {SignupRequest(n, e, p) : n \in Names, e \in Emails, p \in Passwords}
    \cup {LoginRequest(e, p) : e \in Emails, p \in Passwords}

Success == [status |-> 200, detail |-> "success"]

\* HTTPException(status_code=400, detail="Email already exists")
EmailExists == [status |-> 400, detail |-> "Email already exists"]

\* HTTPException(status_code=401, detail="Invalid credentials")
InvalidCredentials == [status |-> 401, detail |-> "Invalid credentials"]

\* id INTEGER PRIMARY KEY AUTOINCREMENT (no row is ever deleted)
next_id(table) ==
    IF table = {} THEN 1
    ELSE 1 + (CHOOSE i \in {u.id : u \in table} : \A u \in table : u.id <= i)

insert_user_no_unique(table, name, email, password_hash) ==
    [ok |-> TRUE,
     table |-> table \cup {[id |-> next_id(table), name |-> name, email |-> email,
                            password_hash |-> password_hash]}]

insert_user_unique_credentials(table, name, email, password_hash) ==
    IF \E u \in table : u.email = email /\ u.password_hash = password_hash
    THEN [ok |-> FALSE, table |-> table]
    ELSE [ok |-> TRUE,
          table |-> table \cup {[id |-> next_id(table), name |-> name,
                                 email |-> email, password_hash |-> password_hash]}]

\* INSERT INTO users (name, email, password_hash) VALUES (?, ?, ?) under
\* email TEXT UNIQUE: one statement, which inserts or raises IntegrityError
insert_user(table, name, email, password_hash) ==
    IF \E u \in table : u.email = email
    THEN [ok |-> FALSE, table |-> table]
    ELSE [ok |-> TRUE,
          table |-> table \cup {[id |-> next_id(table), name |-> name,
                                 email |-> email, password_hash |-> password_hash]}]

select_user_by_email(table, email, password_hash) ==
    {u \in table : u.email = email}

\* SELECT * FROM users WHERE email = ? AND password_hash = ?
select_user(table, email, password_hash) ==
    {u \in table : u.email = email /\ u.password_hash = password_hash}

\* a request reaches the server; its handler runs when the event loop picks it
Arrive(r) ==
    /\ Len(log) + Cardinality(inflight) < MaxRequests
    /\ r \notin inflight
    /\ inflight' = inflight \cup {r}
    /\ UNCHANGED <<users, log>>
    /\ UNCHANGED predictVars

\* another signup with the same email was waiting while r was handled
Overlaps(r) ==
    \E q \in inflight \ {r} : q.op = "signup" /\ q.email = r.email

signup ==
    \E r \in inflight :
        /\ r.op = "signup"
        /\ LET ins == insert_user(users, r.name, r.email, hash_password(r.password))
           IN  /\ users' = ins.table
               /\ log' = Append(log, [req |-> r,
                                      resp |-> IF ins.ok THEN Success ELSE EmailExists,
                                      overlap |-> Overlaps(r)])
        /\ inflight' = inflight \ {r}
        /\ UNCHANGED predictVars

login ==
    \E r \in inflight :
        /\ r.op = "login"
        /\ LET user == select_user(users, r.email, hash_password(r.password))
           IN  log' = Append(log, [req |-> r,
                                   resp |-> IF user # {} THEN Success
                                            ELSE InvalidCredentials,
                                   overlap |-> FALSE])
        /\ inflight' = inflight \ {r}
        /\ UNCHANGED users
        /\ UNCHANGED predictVars

InitAuth == AuthIdle /\ PredictIdle

NextAuth ==
    \/ \E r \in AuthRequests : Arrive(r)
    \/ signup
    \/ login

SpecAuth == InitAuth /\ [][NextAuth]_vars

----------------------------------------------------------------------------
(* Vocabulary of the properties, stated without the handlers' operators *)

\* r is s without a longest prefix and suffix made of characters of chars
IsTrimOf(r, s, chars) ==
    \E i \in 0..Len(s) : \E j \in i..Len(s) :
        /\ r = SubSeq(s, i + 1, j)
        /\ \A k \in 1..i : s[k] \in chars
        /\ \A k \in (j + 1)..Len(s) : s[k] \in chars
        /\ r # <<>> => r[1] \notin chars /\ r[Len(r)] \notin chars

\* s without its trailing characters of chars, its head untouched
TrailingRemoved(s, chars) ==
    LET keep == {i \in 1..Len(s) : s[i] \notin chars}
    IN  IF keep = {} THEN <<>>
        ELSE SubSeq(s, 1, CHOOSE i \in keep : \A j \in keep : j <= i)

\* text carries one of the three labels somewhere
Labelled(text) ==
    \E i \in 1..Len(text) : \E j \in i..Len(text) : SubSeq(text, i, j) \in Labels

\* a and b on two lines, or the one that is not empty
Lines(a, b) == IF a = <<>> \/ b = <<>> THEN a \o b ELSE a \o <<"\n">> \o b

\* the text a fetcher output contributes: nothing when it is empty
TextOf(v) == IF truthy(v) THEN v.s ELSE <<>>

FirstWords(text) ==
    LET words == split(text) IN SubSeq(words, 1, Min(ClaimWords, Len(words)))

Extracted == pc = "wikipedia"

\* the evidence of this request has been aggregated
Aggregated == pc = "inference" \/ llm_calls > 0

\* the inference call returned a result (it did not raise)
InferenceReturned == pc = "done" /\ result.kind = "return"

\* the result carries a text reply
HasText(res) == res.choices > 0 /\ res.content.t = "str"

Signups(e) == {i \in DOMAIN log : log[i].req.op = "signup" /\ log[i].req.email = e}

----------------------------------------------------------------------------
(* Properties *)

\* C1: in the order the signups are handled, the first signup with an email
\* answers success and every later signup with that email answers 400
\* "Email already exists", whatever the names and passwords.
C1_FirstSignupWinsLaterRejected ==
    \A i \in DOMAIN log :
        log[i].req.op = "signup" =>
            log[i].resp = IF \E j \in Signups(log[i].req.email) : j < i
                          THEN EmailExists ELSE Success

\* C1 witness: a second signup with the same email but another name and
\* another password has been rejected after the first succeeded
C1_Witness ==
    \E i, j \in DOMAIN log :
        /\ i < j
        /\ log[i].req.op = "signup" /\ log[j].req.op = "signup"
        /\ log[i].req.email = log[j].req.email
        /\ log[i].req.name # log[j].req.name
        /\ log[i].req.password # log[j].req.password
        /\ log[i].resp = Success /\ log[j].resp = EmailExists

\* C2: the login handled last succeeded iff the table holds a row with its
\* email and the hash of its password; otherwise it answered 401 "Invalid
\* credentials", the same for an unknown email and for a wrong password.
C2_LoginIffEmailAndHashMatch ==
    (log # <<>> /\ log[Len(log)].req.op = "login") =>
        LET r == log[Len(log)].req
            resp == log[Len(log)].resp
            match == \E u \in users :
                        u.email = r.email /\ u.password_hash = hash_password(r.password)
        IN  resp = IF match THEN Success ELSE InvalidCredentials

\* C2 witness: after a signup, a login with the right password succeeded and
\* a login with the same email and a wrong password was rejected
C2_Witness ==
    \E i, j, k \in DOMAIN log :
        /\ i < j /\ j < k
        /\ log[i].req.op = "signup" /\ log[i].resp = Success
        /\ log[j].req.op = "login" /\ log[j].req.email = log[i].req.email
        /\ log[j].req.password = log[i].req.password /\ log[j].resp = Success
        /\ log[k].req.op = "login" /\ log[k].req.email = log[i].req.email
        /\ log[k].req.password # log[i].req.password
        /\ log[k].resp = InvalidCredentials

\* C3: whatever the order in which the waiting requests are handled, no two
\* rows of users share an email, and of the signups handled for one email
\* exactly one succeeded.
C3_EmailUniqueUnderConcurrency ==
    /\ \A u, v \in users : u.email = v.email => u = v
    /\ \A e \in Emails :
          Signups(e) # {} =>
              Cardinality({i \in Signups(e) : log[i].resp = Success}) = 1

\* C3 witness: two signups with one email were waiting together; one
\* succeeded and the other was rejected
C3_Witness ==
    \E i, j \in DOMAIN log :
        /\ i < j
        /\ log[i].req.op = "signup" /\ log[j].req.op = "signup"
        /\ log[i].req.email = log[j].req.email
        /\ log[i].overlap
        /\ log[i].resp = Success /\ log[j].resp = EmailExists
        /\ Cardinality(users) = 1

\* C4: a text reply without any of the three labels is answered 200 with
\* exactly the fallback message, and every 200 response carries a label.
C4_UnlabelledReplyGetsFallback ==
    pc = "done" =>
        /\ (result.kind = "return" /\ HasText(result) /\ ~Labelled(result.content.s))
              => response = Ok(FALLBACK)
        /\ response.status = 200 => Labelled(response.body)

\* C4 witness: the reply "fake" (lower case, no label) was replaced
C4_Witness ==
    /\ pc = "done"
    /\ result = Returned(1, Str(<<"f", "a", "k", "e">>))
    /\ response = Ok(FALLBACK)

\* C5: a request in which an exception was raised ends with status 500 and
\* detail "Error generating response: " followed by the exception's
\* message, returns no verdict, and the inference endpoint is never called
\* twice in one request.
C5_ExceptionEndsIn500 ==
    /\ llm_calls <= 1
    /\ pc = "except" => response = NoResponse
    /\ (pc = "done" /\ exc # NoExc) =>
          response = [status |-> 500, body |-> <<"Error generating response: ", exc>>]

\* C5 witness: the inference call raised and the request ended with 500
C5_Witness ==
    /\ pc = "done"
    /\ result = Raised("provider error")
    /\ llm_calls = 1
    /\ response.status = 500

\* C6 as stated: whenever the inference call returns, a result without a
\* usable text or without a label is answered 200 with the fallback.
C6_AnyReturnedResultIsNormalised ==
    (InferenceReturned /\ (~HasText(result) \/ ~Labelled(result.content.s)))
        => response = Ok(FALLBACK)

\* C6 amended: when the inference call returns a result that carries a
\* text (which may be empty or blank), the answer is 200, with the fallback
\* when the text has no label; a result without choices or without a text
\* ends in 500.
C6_TextReplyIsNeverAnError ==
    InferenceReturned =>
        IF HasText(result)
        THEN /\ response.status = 200
             /\ ~Labelled(result.content.s) => response = Ok(FALLBACK)
        ELSE /\ response.status = 500
             /\ response.body[1] = "Error generating response: "

\* C6 witness: a blank reply was answered 200 with the fallback
C6_Witness ==
    /\ pc = "done"
    /\ result = Returned(1, Str(<<" ">>))
    /\ response = Ok(FALLBACK)

\* C7 as stated: a message of 3 or more words gives its first 8 words
\* joined by single spaces with only trailing "." and "," removed.
C7_OnlyTrailingPunctuationRemoved ==
    (Extracted /\ Len(split(message)) >= MinWords) =>
        claim.s = TrailingRemoved(join(<<" ">>, FirstWords(message)), {".", ","})

\* C7 amended: a message of 3 or more words gives its first 8 words joined
\* by single spaces with the leading and the trailing ".", "," and " "
\* removed.
C7_FirstEightWordsTrimmedBothEnds ==
    (Extracted /\ Len(split(message)) >= MinWords) =>
        IsTrimOf(claim.s, join(<<" ">>, FirstWords(message)), ClaimStrip)

\* C7 witness: a message of more than 8 words that starts with "." was cut
\* to 8 words and lost the leading "."
C7_Witness ==
    /\ Extracted
    /\ Len(split(message)) > ClaimWords
    /\ split(message)[1] = <<".", "b">>
    /\ Len(split(claim.s)) = ClaimWords
    /\ claim.s[1] = "b"

\* C8 as stated: a message of fewer than 3 words comes back with its
\* leading and trailing whitespace and punctuation trimmed.
C8_WhitespaceAndPunctuationTrimmed ==
    (Extracted /\ Len(split(message)) < MinWords) =>
        IsTrimOf(claim.s, message, Whitespace \cup {".", ","})

\* C8 amended: a message of fewer than 3 words comes back with its leading
\* and trailing " ", "." and "," removed and nothing else changed: a tab or
\* a newline at either end stays, with whatever lies beyond it.
C8_ShortMessageTrimmedOfSpaceDotComma ==
    (Extracted /\ Len(split(message)) < MinWords) =>
        IsTrimOf(claim.s, message, ClaimStrip)

\* C8 witness: a two-word message that ends with a newline came back with
\* its newline and its double space
C8_Witness ==
    /\ Extracted
    /\ message = <<"a", " ", " ", "b", ",", "\n">>
    /\ claim.s = message

\* C9 as stated: the evidence is the fallback sentence when all four
\* outputs are empty, and otherwise exactly the non-empty outputs joined by
\* newlines in the order Wikipedia, NewsAPI, GNews, fact-checker.
C9_EvidenceIsExactJoin ==
    Aggregated =>
        LET joined == Lines(Lines(Lines(TextOf(wiki_summary), TextOf(newsapi_snippets)),
                                  TextOf(gnews_snippets)),
                            TextOf(factchecker_snippets))
        IN  all_evidence = IF joined = <<>> THEN NO_EVIDENCE ELSE joined

\* C9 amended: the evidence is the non-empty outputs joined by newlines in
\* the order Wikipedia, NewsAPI, GNews, fact-checker, with the whitespace
\* around the whole removed, or the fallback sentence when nothing is left;
\* a request whose outputs include a non-empty value that is not a string
\* gets no evidence and ends in the error path.
C9_EvidenceIsTrimmedJoin ==
    LET outputs == {wiki_summary, newsapi_snippets, gnews_snippets, factchecker_snippets}
        joined == Lines(Lines(Lines(TextOf(wiki_summary), TextOf(newsapi_snippets)),
                              TextOf(gnews_snippets)),
                        TextOf(factchecker_snippets))
    IN  /\ Aggregated =>
            /\ \A v \in outputs : truthy(v) => v.t = "str"
            /\ IF \A k \in 1..Len(joined) : joined[k] \in Whitespace
               THEN all_evidence = NO_EVIDENCE
               ELSE IsTrimOf(all_evidence, joined, Whitespace)
        /\ (pc \in {"except", "done"} /\ ~Aggregated) =>
            /\ \E v \in outputs : truthy(v) /\ v.t # "str"
            /\ all_evidence = <<>>

\* C9 witness: Wikipedia and GNews answered, NewsAPI did not; the evidence
\* is the two in order, without the newline GNews ended with
C9_Witness ==
    /\ Aggregated
    /\ wiki_summary = Str(<<"w">>)
    /\ newsapi_snippets = Str(<<>>)
    /\ gnews_snippets =
          Str(<<"T", ":", " ", "d", "\n", "U", ":", " ", "e", "\n">>)
    /\ all_evidence = <<"w", "\n", "T", ":", " ", "d", "\n", "U", ":", " ", "e">>

\* what the fetcher of src handed back
OutputOf(src) ==
    CASE src = "wikipedia" -> wiki_summary
      [] src = "newsapi" -> newsapi_snippets
      [] src = "gnews" -> gnews_snippets

\* C10: each fetcher sends at most one request and hands back the empty
\* string whenever its source fails (no answer, a non-200 status, a body
\* that is not JSON or not of the expected shape), so that every /predict
\* request reaches the inference call.
C10_SourceFailureNeverSurfaces ==
    /\ \A src \in {"wikipedia", "newsapi", "gnews"} :
          Cardinality({i \in DOMAIN outbound : outbound[i][1] = src}) <= 1
    /\ pc \in {"except", "done"} =>
          /\ \A src \in failed : OutputOf(src) = Str(<<>>)
          /\ llm_calls = 1

====
